---------------------------- MODULE Spec2Model ----------------------------
(***************************************************************************)
(* A model of the PDF Data Extractor: the text normalizer clean_text and   *)
(* the page loop extract_pdf_smart documented in the integration guide,    *)
(* and the upload state machine of the React component App.                *)
(*                                                                         *)
(* Texts are TLA+ strings.  A character is a string of length 1.           *)
(***************************************************************************)
EXTENDS Integers, Sequences, FiniteSets, Bags, TLC

VARIABLES
    text,            \* clean_text: the raw text handed to it
    ignore_phrases,  \* the configured IGNORE_PHRASES list
    kept,            \* clean_text: kept_lines when it returns
    content,         \* clean_text: the value returned
    npc,             \* "input" before clean_text has run, "done" after
    pdf,             \* extract_pdf_smart: the pages of the document
    pdf_valid,       \* whether pdfplumber.open accepts the document
    split_page_3,    \* extract_pdf_smart: its parameter
    page_i,          \* extract_pdf_smart: pages the loop has been through
    extracted,       \* the texts the extract_text calls have returned
    results,         \* extract_pdf_smart: results
    rpc,             \* "open", "loop", "returned" or "raised"
    doc_lines,       \* extractRegion: the lines of the document
    start_marker,    \* extractRegion: startMarker
    end_marker,      \* extractRegion: endMarker
    region,          \* what extractRegion returned
    items,           \* what parseItems returned
    gpc,             \* "input", "region" (extractRegion done), "items"
    data,            \* App: useState([])
    loading,         \* App: useState(false)
    error,           \* App: useState(null)
    extractionMode,  \* App: useState('auto')
    vendor,          \* App: useState(null)
    startMarker,     \* App: useState('Line: 1')
    endMarker,       \* App: useState('Total Price')
    inflight,        \* the bag of handleFile calls waiting at await fetch
    last_started,    \* history: the request of the latest upload that began
    doc_text,        \* detect: the full document text
    profiles,        \* detect: the profile list, in priority order
    detections,      \* what the runs of detect have returned
    calls            \* the locals of each concurrent extract_pdf_smart call

normVars == <<text, kept, content, npc>>
rawVars == <<pdf, pdf_valid, split_page_3, page_i, extracted, results, rpc>>
regionVars == <<doc_lines, start_marker, end_marker, region, items, gpc>>
uiVars == <<data, loading, error, extractionMode, vendor, startMarker,
            endMarker, inflight>>
detectVars == <<doc_text, profiles, detections>>
vars == <<ignore_phrases, normVars, rawVars, regionVars, uiVars, last_started,
          detectVars, calls>>

---------------------------------------------------------------------------
(* Characters and the string primitives of Python that clean_text uses.    *)

CharAt(s, i) == SubSeq(s, i, i)

UPPER == "ABCDEFGHIJKLMNOPQRSTUVWXYZ"
LOWER == "abcdefghijklmnopqrstuvwxyz"
UpperChars == {CharAt(UPPER, i) : i \in 1..Len(UPPER)}
LowerOf == [c \in UpperChars |->
              CharAt(LOWER, CHOOSE i \in 1..Len(UPPER) : CharAt(UPPER, i) = c)]

\* str.lower() on one character
LowerChar(c) == IF c \in UpperChars THEN LowerOf[c] ELSE c

RECURSIVE LowerFrom(_, _)
LowerFrom(s, i) ==
    IF i > Len(s) THEN "" ELSE LowerChar(CharAt(s, i)) \o LowerFrom(s, i + 1)

\* str.lower()
Lower(s) == LowerFrom(s, 1)

\* p in s  (Python substring test; the empty string is in every string)
Contains(s, p) ==
    \E i \in 0..(Len(s) - Len(p)) : SubSeq(s, i + 1, i + Len(p)) = p

\* the characters str.strip() removes and \s matches
IsSpace(c) == c \in {" ", "\t", "\n", "\r", "\f"}

\* the characters \d matches
IsDigit(c) == c \in {"0", "1", "2", "3", "4", "5", "6", "7", "8", "9"}

\* str.strip()
Strip(s) ==
    LET solid == {i \in 1..Len(s) : ~IsSpace(CharAt(s, i))}
    IN  IF solid = {} THEN ""
        ELSE SubSeq(s, CHOOSE i \in solid : \A j \in solid : i <= j,
                       CHOOSE i \in solid : \A j \in solid : j <= i)

RECURSIVE SplitFrom(_, _, _, _)
SplitFrom(s, sep, start, i) ==
    IF i > Len(s) THEN <<SubSeq(s, start, Len(s))>>
    ELSE IF CharAt(s, i) = sep
    THEN <<SubSeq(s, start, i - 1)>> \o SplitFrom(s, sep, i + 1, i + 1)
    ELSE SplitFrom(s, sep, start, i + 1)

\* str.split(sep) for a one-character separator
Split(s, sep) == SplitFrom(s, sep, 1, 1)

RECURSIVE JoinFrom(_, _, _)
JoinFrom(parts, sep, i) ==
    IF i > Len(parts) THEN ""
    ELSE parts[i] \o (IF i < Len(parts) THEN sep ELSE "") \o JoinFrom(parts, sep, i + 1)

\* sep.join(parts)
Join(parts, sep) == JoinFrom(parts, sep, 1)

---------------------------------------------------------------------------
(* clean_text                                                              *)

should_remove_CaseSensitive(line, phrases) ==
    \E k \in 1..Len(phrases) : Contains(line, phrases[k])

\* the inner loop over IGNORE_PHRASES: phrase.lower() in line.lower()
should_remove(line, phrases) ==
    \E k \in 1..Len(phrases) : Contains(Lower(line), Lower(phrases[k]))

\* the first pass appends line.strip() for a line it keeps
KeepsLine_Blank(line, phrases) == ~should_remove(line, phrases)

KeepsLine(line, phrases) == ~should_remove(line, phrases) /\ Strip(line) # ""

RECURSIVE FirstPass(_, _, _)
FirstPass(lines, phrases, i) ==
    IF i > Len(lines) THEN <<>>
    ELSE (IF KeepsLine(lines[i], phrases) THEN <<Strip(lines[i])>> ELSE <<>>)
         \o FirstPass(lines, phrases, i + 1)

\* kept_lines after the first pass
kept_lines(t, phrases) == FirstPass(Split(t, "\n"), phrases, 1)

\* the length of the run of digits a line starts with
RECURSIVE DigitRun(_, _)
DigitRun(line, i) ==
    IF i <= Len(line) /\ IsDigit(CharAt(line, i)) THEN DigitRun(line, i + 1)
    ELSE i - 1

\* re.match(r'^\d+\.?\s', line)
IsHeader(line) ==
    LET d == DigitRun(line, 1)
    IN  /\ d >= 1
        /\ \/ (d + 1 <= Len(line) /\ IsSpace(CharAt(line, d + 1)))
           \/ /\ d + 2 <= Len(line)
              /\ CharAt(line, d + 1) = "."
              /\ IsSpace(CharAt(line, d + 2))

\* the scan state of the second pass before its first line
NoOpenComment == [combined |-> <<>>, current |-> ""]

header_branch_NoClose(st, line) == [st EXCEPT !.current = line]

\* the branch taken on a line that matches: the open comment is appended to
\* combined_lines and the line becomes current_comment
header_branch(st, line) ==
    [combined |-> IF st.current # "" THEN Append(st.combined, st.current)
                  ELSE st.combined,
     current  |-> line]

continuation_branch_NoSpace(st, line) ==
    IF st.current # "" THEN [st EXCEPT !.current = @ \o line]
    ELSE [st EXCEPT !.combined = Append(@, line)]

continuation_branch_Buffers(st, line) ==
    IF st.current # "" THEN [st EXCEPT !.current = @ \o " " \o line]
    ELSE [st EXCEPT !.current = line]

\* the branch taken on any other line: current_comment += " " + line with a
\* comment open, combined_lines.append(line) with none
continuation_branch(st, line) ==
    IF st.current # "" THEN [st EXCEPT !.current = @ \o " " \o line]
    ELSE [st EXCEPT !.combined = Append(@, line)]

last_comment_Forgotten(st) == st.combined

\* the statement after the loop: the last comment is appended
last_comment(st) ==
    IF st.current # "" THEN Append(st.combined, st.current) ELSE st.combined

\* the second loop, from line i on
RECURSIVE SecondPass(_, _, _)
SecondPass(ks, i, st) ==
    IF i > Len(ks) THEN last_comment(st)
    ELSE IF IsHeader(ks[i])
         THEN SecondPass(ks, i + 1, header_branch(st, ks[i]))
         ELSE SecondPass(ks, i + 1, continuation_branch(st, ks[i]))

\* combined_lines at the return
combined_lines(ks) == SecondPass(ks, 1, NoOpenComment)

clean_text(t, phrases) ==
    IF t = "" THEN "" ELSE Join(combined_lines(kept_lines(t, phrases)), "\n")

---------------------------------------------------------------------------
(* Inputs of the normalizer.                                               *)

MaxChars == 4
MaxLines == 4

Alphabet == {"1", ".", " ", "\n", "a", "b"}

RECURSIVE StringsUpTo(_)
StringsUpTo(n) ==
    IF n = 0 THEN {""}
    ELSE LET shorter == StringsUpTo(n - 1)
         IN  shorter \cup {s \o c : s \in shorter, c \in Alphabet}

\* every text of at most MaxChars characters
CharTexts == StringsUpTo(MaxChars)

LineVocab == {"1 a", "2. b", "b", "A", " b ", "1.", "aB c", ""}

RECURSIVE LineSeqs(_)
LineSeqs(n) ==
    IF n = 0 THEN {<<>>}
    ELSE LET shorter == LineSeqs(n - 1)
         IN  shorter \cup {Append(ls, l) : ls \in shorter, l \in LineVocab}

\* every text of at most MaxLines lines of the vocabulary
LineTexts == {Join(ls, "\n") : ls \in LineSeqs(MaxLines)}

Texts == CharTexts \cup LineTexts

\* IGNORE_PHRASES as configured: a phrase of one word, a phrase with a
\* space in it, both, or none
IgnoreConfigs == {<<>>, <<"Ab">>, <<"A b">>, <<"A b", "Ab">>}

---------------------------------------------------------------------------
(* extract_pdf_smart                                                       *)

\* what extract_text returns: None or a string
None == [none |-> TRUE, str |-> ""]
Str(s) == [none |-> FALSE, str |-> s]

\* extract_text() or ""
or_empty(x) == IF x.none \/ x.str = "" THEN "" ELSE x.str

page_num_ZeroBased(i) == i

\* page_num = i + 1, for the index i that enumerate gives
page_num(i) == i + 1

\* the page that is split down the middle
SPLIT_PAGE == 3

\* the two records of the split page
split_records(n, raw_left, raw_right, phrases) ==
    << [page |-> n, type |-> "As Found (Left)",
        content |-> clean_text(or_empty(raw_left), phrases)],
       [page |-> n, type |-> "As Left (Right)",
        content |-> clean_text(or_empty(raw_right), phrases)] >>

\* the record of any other page
full_record(n, raw_text, phrases) ==
    << [page |-> n, type |-> "Full Page",
        content |-> clean_text(or_empty(raw_text), phrases)] >>

\* whether the loop body splits the page at index i
splits(i, split) == split /\ page_num(i) = SPLIT_PAGE

\* the loop from index i on, and the value returned
RECURSIVE extract_pages(_, _, _, _)
extract_pages(pages, i, split, phrases) ==
    IF i >= Len(pages) THEN <<>>
    ELSE (IF splits(i, split)
          THEN split_records(page_num(i), pages[i + 1].left, pages[i + 1].right,
                             phrases)
          ELSE full_record(page_num(i), pages[i + 1].full, phrases))
         \o extract_pages(pages, i + 1, split, phrases)

extract_pdf_smart(pages, split, phrases) == extract_pages(pages, 0, split, phrases)

---------------------------------------------------------------------------
(* Inputs of extract_pdf_smart: a page is what extract_text returns for    *)
(* the whole page and for its two halves.                                  *)

MaxPages == 4

PageVocab ==
    { [full |-> None,              left |-> None,       right |-> None],
      [full |-> Str(" \n "),       left |-> Str(""),    right |-> Str(" ")],
      [full |-> Str("1 a\nb"),     left |-> Str("1 a"), right |-> Str("b")],
      [full |-> Str("aB c\n2. b"), left |-> Str("A"),   right |-> Str("2. b\nb")] }

RECURSIVE PageSeqs(_)
PageSeqs(n) ==
    IF n = 0 THEN {<<>>}
    ELSE LET shorter == PageSeqs(n - 1)
         IN  shorter \cup {Append(ps, p) : ps \in shorter, p \in PageVocab}

Pdfs == PageSeqs(MaxPages)

---------------------------------------------------------------------------
(* The Bounded Region Extractor and the Line-Item Parser of the            *)
(* /extract-items endpoint (backend/main.py), whose behaviour is given by  *)
(* sections 4.4 and 4.5 of the specification.                              *)

\* the scan state before the first line
BeforeRegion == [phase |-> "before", region |-> <<>>]

region_step_EndAnywhere(st, line, startM, endM) ==
    IF st.phase = "after" THEN st
    ELSE IF Contains(line, endM) THEN [st EXCEPT !.phase = "after"]
    ELSE IF st.phase = "before" /\ ~Contains(line, startM) THEN st
    ELSE [phase |-> "inside", region |-> Append(st.region, line)]

\* one line of the top-to-bottom scan: the region begins at the first line
\* containing startMarker (included) and ends at the first subsequent line
\* containing endMarker (excluded)
region_step(st, line, startM, endM) ==
    IF st.phase = "before"
    THEN IF Contains(line, startM)
         THEN [phase |-> "inside", region |-> <<line>>]
         ELSE st
    ELSE IF st.phase = "inside"
    THEN IF Contains(line, endM)
         THEN [st EXCEPT !.phase = "after"]
         ELSE [st EXCEPT !.region = Append(@, line)]
    ELSE st

RECURSIVE ScanRegion(_, _, _, _, _)
ScanRegion(ls, i, st, startM, endM) ==
    IF i > Len(ls) THEN st.region
    ELSE ScanRegion(ls, i + 1, region_step(st, ls[i], startM, endM),
                    startM, endM)

extractRegion(ls, startM, endM) ==
    ScanRegion(ls, 1, BeforeRegion, startM, endM)

\* a field that could not be parsed, and one that could
NullNum == [null |-> TRUE, val |-> 0]
Num(n) == [null |-> FALSE, val |-> n]
NullStr == [null |-> TRUE, val |-> ""]
Tok(t) == [null |-> FALSE, val |-> t]

\* the words of a line
Tokens(l) == SelectSeq(Split(l, " "), LAMBDA t : t # "")

IsLetter(c) == c \in UpperChars \/ LowerChar(c) # c \/ Contains(LOWER, c)

AllDigits(t) == Len(t) >= 1 /\ \A i \in 1..Len(t) : IsDigit(CharAt(t, i))

\* an integer or a decimal: digits, or digits "." digits
IsNumeric(t) ==
    \/ AllDigits(t)
    \/ \E d \in 2..(Len(t) - 1) :
         /\ CharAt(t, d) = "."
         /\ AllDigits(SubSeq(t, 1, d - 1))
         /\ AllDigits(SubSeq(t, d + 1, Len(t)))

\* the part-id shape: letters and digits, both present, length >= 3
IsPartId(t) ==
    /\ Len(t) >= 3
    /\ \A i \in 1..Len(t) : IsDigit(CharAt(t, i)) \/ IsLetter(CharAt(t, i))
    /\ \E i \in 1..Len(t) : IsDigit(CharAt(t, i))
    /\ \E i \in 1..Len(t) : IsLetter(CharAt(t, i))

DigitValue(c) == (CHOOSE i \in 1..10 : CharAt("0123456789", i) = c) - 1

RECURSIVE ParseInt(_)
ParseInt(t) ==
    IF t = "" THEN 0
    ELSE 10 * ParseInt(SubSeq(t, 1, Len(t) - 1)) + DigitValue(CharAt(t, Len(t)))

\* a price in hundredths, by the two-fraction-digit convention
ParsePrice(t) ==
    IF AllDigits(t) THEN 100 * ParseInt(t)
    ELSE LET d    == CHOOSE k \in 1..Len(t) : CharAt(t, k) = "."
             frac == SubSeq(t, d + 1, Len(t))
         IN  100 * ParseInt(SubSeq(t, 1, d - 1))
             + (IF Len(frac) = 1 THEN 10 * ParseInt(frac)
                ELSE ParseInt(SubSeq(frac, 1, 2)))

\* the sequence without its element at position i
Without(sq, i) == SubSeq(sq, 1, i - 1) \o SubSeq(sq, i + 1, Len(sq))

\* itemHeaderPattern ^\d+\s
IsItemHeader(line) ==
    LET d == DigitRun(line, 1)
    IN  d >= 1 /\ d + 1 <= Len(line) /\ IsSpace(CharAt(line, d + 1))

\* the scan state of the grouping before its first line
NoOpenSegment == [done |-> <<>>, open |-> ""]

segment_step_DropsContinuation(st, line) ==
    IF IsItemHeader(line)
    THEN [done |-> IF st.open # "" THEN Append(st.done, st.open) ELSE st.done,
          open |-> line]
    ELSE IF st.open # "" THEN st
    ELSE [st EXCEPT !.done = Append(@, line)]

segment_step_DropsLeading(st, line) ==
    IF IsItemHeader(line)
    THEN [done |-> IF st.open # "" THEN Append(st.done, st.open) ELSE st.done,
          open |-> line]
    ELSE IF st.open # "" THEN [st EXCEPT !.open = @ \o " " \o line]
    ELSE st

\* one line of the grouping of 4.5, of the shape of the second pass of
\* clean_text: a header line starts a segment, any other line joins the
\* open segment, and with no segment open is a segment of its own
segment_step(st, line) ==
    IF IsItemHeader(line)
    THEN [done |-> IF st.open # "" THEN Append(st.done, st.open) ELSE st.done,
          open |-> line]
    ELSE IF st.open # "" THEN [st EXCEPT !.open = @ \o " " \o line]
    ELSE [st EXCEPT !.done = Append(@, line)]

RECURSIVE GroupSegments(_, _, _)
GroupSegments(ls, i, st) ==
    IF i > Len(ls) THEN (IF st.open # "" THEN Append(st.done, st.open) ELSE st.done)
    ELSE GroupSegments(ls, i + 1, segment_step(st, ls[i]))

\* the fields of one segment: a leading integer is the line number, the
\* first token of part-id shape the part id, the last two numeric tokens
\* the quantity and the price, and what is left the description
parse_segment(seg) ==
    LET t0   == Tokens(seg)
        hasN == t0 # <<>> /\ AllDigits(t0[1])
        t1   == IF hasN THEN Tail(t0) ELSE t0
        ids  == {i \in 1..Len(t1) : IsPartId(t1[i])}
        idAt == IF ids = {} THEN 0 ELSE CHOOSE i \in ids : \A j \in ids : i <= j
        t2   == IF idAt = 0 THEN t1 ELSE Without(t1, idAt)
        nums == {i \in 1..Len(t2) : IsNumeric(t2[i])}
        pAt  == IF Cardinality(nums) < 2 THEN 0
                ELSE CHOOSE i \in nums : \A j \in nums : j <= i
        qAt  == IF pAt = 0 THEN 0
                ELSE CHOOSE i \in nums \ {pAt} : \A j \in nums \ {pAt} : j <= i
        t3   == IF pAt = 0 THEN t2 ELSE Without(Without(t2, pAt), qAt)
    IN  [line_item   |-> IF hasN THEN Num(ParseInt(t0[1])) ELSE NullNum,
         part_id     |-> IF idAt = 0 THEN NullStr ELSE Tok(t1[idAt]),
         qty         |-> IF qAt # 0 /\ AllDigits(t2[qAt])
                         THEN Num(ParseInt(t2[qAt])) ELSE NullNum,
         price       |-> IF pAt = 0 THEN NullNum ELSE Num(ParsePrice(t2[pAt])),
         description |-> Join(t3, " ")]

parseItems(regionLines) ==
    LET segs == GroupSegments(regionLines, 1, NoOpenSegment)
    IN  [k \in 1..Len(segs) |-> parse_segment(segs[k])]

---------------------------------------------------------------------------
(* Inputs of the region extractor.                                         *)

MaxDocLines == 4

DocVocab ==
    { "Line: 1 AB123 Widget 10 25.50",
      "1 AB123 Widget 10 25.50",
      "2 CD456 Bolt 3 1.25",
      "more text",
      "see note 7",
      "Total Price: 255.00",
      "Line: 1 of Total Price" }

RECURSIVE DocSeqs(_)
DocSeqs(n) ==
    IF n = 0 THEN {<<>>}
    ELSE LET shorter == DocSeqs(n - 1)
         IN  shorter \cup {Append(d, l) : d \in shorter, l \in DocVocab}

Docs == DocSeqs(MaxDocLines)

\* the default markers of the component and a start marker that opens the
\* region at a line beginning with its number
MarkerPairs == {<<"Line: 1", "Total Price">>, <<"1 AB123", "Total Price">>}

---------------------------------------------------------------------------
(* The Vendor Detector of the /extract-items endpoint, given by section    *)
(* 4.3 of the specification, and the endpoint's answer.                    *)

\* the configured profiles, in priority order
VENDOR_PROFILES ==
    << [name |-> "acme", detectKeywords |-> <<"Acme">>,
        startMarker |-> "Line: 1", endMarker |-> "Total Price"],
       [name |-> "bolt", detectKeywords |-> <<"bolt co", "widget">>,
        startMarker |-> "1 AB123", endMarker |-> "Total Price"] >>

profile_matches(prof, fullText) ==
    \E k \in 1..Len(prof.detectKeywords) :
        Contains(Lower(fullText), Lower(prof.detectKeywords[k]))

\* the scan of the profile list from position i on
RECURSIVE scan_profiles(_, _, _)
scan_profiles(fullText, profs, i) ==
    IF i > Len(profs) THEN 0
    ELSE IF profile_matches(profs[i], fullText) THEN i
    ELSE scan_profiles(fullText, profs, i + 1)

detect_LastMatching(fullText, profs) ==
    LET hits == {i \in 1..Len(profs) : profile_matches(profs[i], fullText)}
    IN  IF hits = {} THEN 0 ELSE CHOOSE i \in hits : \A j \in hits : j <= i

\* the index of the first matching profile, 0 for "unknown"
detect(fullText, profs) == scan_profiles(fullText, profs, 1)

\* the vendor string of a detection
vendor_name(profs, v) == IF v = 0 THEN "unknown" ELSE profs[v].name

\* the full text of a document
RECURSIVE full_text(_, _)
full_text(pages, i) ==
    IF i > Len(pages) THEN ""
    ELSE or_empty(pages[i].full)
         \o (IF i < Len(pages) THEN "\n" ELSE "") \o full_text(pages, i + 1)

\* the markers of a request: manual markers, when the request carries
\* them, override the defaults of the detected vendor; with neither there
\* are none
markers_in_use(v, markers) ==
    IF markers # <<>> THEN markers
    ELSE IF v # 0
    THEN <<VENDOR_PROFILES[v].startMarker, VENDOR_PROFILES[v].endMarker>>
    ELSE <<>>

\* the answer of /extract-items; without markers there is no region
extract_items(pages, markers) ==
    LET fullText == full_text(pages, 1)
        v    == detect(fullText, VENDOR_PROFILES)
        used == markers_in_use(v, markers)
    IN  [vendor |-> vendor_name(VENDOR_PROFILES, v),
         items  |-> IF used = <<>> THEN <<>>
                    ELSE parseItems(extractRegion(Split(fullText, "\n"),
                                                  used[1], used[2]))]

---------------------------------------------------------------------------
(* The component App.                                                      *)

\* maxSize = 10 * 1024 * 1024
MAX_SIZE == 10485760

\* the uploads that can be waiting for their response at once
MaxInflight == 2

\* the documents that get uploaded
ItemsPdf ==
    << [full  |-> Str("Acme Invoice\n1 AB123 Widget 10 25.50\nLine: 1 of 2\nmore text\nTotal Price: 255.00"),
        left  |-> Str("Acme Invoice"), right |-> Str("")] >>

NoMatchPdf ==
    << [full |-> Str("Acme report\n1 a\nb"), left |-> Str("Acme"), right |-> None] >>

\* the files handed to handleFile
UploadFiles ==
    { [name |-> "notes.txt", type |-> "text/plain",      size |-> 1],
      [name |-> "huge.pdf",  type |-> "application/pdf", size |-> MAX_SIZE + 1],
      [name |-> "items.pdf", type |-> "application/pdf", size |-> MAX_SIZE],
      [name |-> "plain.pdf", type |-> "application/pdf", size |-> 1] }

PdfOf == [n \in {"items.pdf", "plain.pdf"} |->
             IF n = "items.pdf" THEN ItemsPdf ELSE NoMatchPdf]

\* the values typed into the marker inputs
StartMarkerInputs == {"Line: 1", "1 AB123"}
EndMarkerInputs == {"Total Price", "more"}

\* IGNORE_PHRASES of the running backend
BACKEND_IGNORE == <<"A b", "Ab">>

\* what /upload answers for each document of ns: {data: [...]}
RECURSIVE upload_answers(_)
upload_answers(ns) ==
    IF ns = {} THEN <<>>
    ELSE LET n == CHOOSE x \in ns : TRUE
         IN  (n :> extract_pdf_smart(PdfOf[n], TRUE, BACKEND_IGNORE))
             @@ upload_answers(ns \ {n})

UploadResult == upload_answers(DOMAIN PdfOf)

\* the marker fields of a request's formData: both or neither
NoMarkers == <<>>

\* the marker fields a request can carry
MarkerOptions == {NoMarkers} \cup (StartMarkerInputs \X EndMarkerInputs)

\* what /extract-items answers for document n with each marker fields of mks
RECURSIVE items_answers(_, _)
items_answers(n, mks) ==
    IF mks = {} THEN <<>>
    ELSE LET mk == CHOOSE x \in mks : TRUE
         IN  (mk :> extract_items(PdfOf[n], mk)) @@ items_answers(n, mks \ {mk})

\* what /extract-items answers for each document of ns and marker fields
RECURSIVE extract_items_answers(_)
extract_items_answers(ns) ==
    IF ns = {} THEN <<>>
    ELSE LET n == CHOOSE x \in ns : TRUE
         IN  (n :> items_answers(n, MarkerOptions)) @@ extract_items_answers(ns \ {n})

ExtractItemsResult == extract_items_answers(DOMAIN PdfOf)

\* the answer to a request
extract_items_response(r) == ExtractItemsResult[r.file][r.markers]

Null == NullStr
Modes == {"raw", "auto", "manual"}
IsSmart(mode) == mode = "auto" \/ mode = "manual"

\* Number.toString() of a natural number
RECURSIVE NatToString(_)
NatToString(n) ==
    IF n < 10 THEN CharAt("0123456789", n + 1)
    ELSE NatToString(n \div 10) \o CharAt("0123456789", (n % 10) + 1)

\* (size / 1024 / 1024).toFixed(2)
SizeInMB(size) ==
    LET hundredths == (size * 100 + 524288) \div 1048576
        frac       == hundredths % 100
    IN  NatToString(hundredths \div 100) \o "."
        \o (IF frac < 10 THEN "0" ELSE "") \o NatToString(frac)

\* the messages of the two validations
MsgType == "Invalid file type. Please upload a PDF file."
MsgSize(file) ==
    "File is too large (" \o SizeInMB(file.size) \o "MB). Maximum size is 10MB."

\* what a failing request throws: fetch rejects, the response is not OK
\* with a detail in its body or without, or the body of an OK response is
\* no JSON
MsgFetch == "Failed to fetch"
MsgStatus == "Server error: 500"
MsgJson == "Unexpected token < in JSON at position 0"
Details == {"", "Could not read PDF"}

\* errorData.detail || `Server error: ${response.status}`
not_ok_message(detail) == IF detail = "" THEN MsgStatus ELSE detail

Thrown == {MsgFetch, MsgJson} \cup {not_ok_message(d) : d \in Details}

MsgConnect ==
    "Unable to connect to server. Please ensure the backend is running on http://localhost:8000"

\* what the catch block stores for an error message
catch_message(msg) ==
    IF Contains(msg, "Failed to fetch") THEN Tok(MsgConnect) ELSE Tok(msg)

\* the endpoint chosen for a mode
endpoint(mode) == IF IsSmart(mode) THEN "/extract-items" ELSE "/upload"

form_markers_Always(mode, sm, em) == <<sm, em>>

\* the marker fields appended to formData
form_markers(mode, sm, em) == IF mode = "manual" THEN <<sm, em>> ELSE NoMarkers

on_smart_result_EmptyIsError(result) ==
    IF result.items = <<>>
    THEN [data |-> <<>>, vendor |-> Null, error |-> Tok("No items found")]
    ELSE [data |-> result.items, vendor |-> Tok(result.vendor), error |-> error]

\* setData(result.items || []) and setVendor(result.vendor || 'Unknown');
\* error is left as it is
on_smart_result(result) ==
    [data   |-> result.items,
     vendor |-> IF result.vendor = "" THEN Tok("Unknown") ELSE Tok(result.vendor),
     error  |-> error]

---------------------------------------------------------------------------
(* The specifications.  Each one runs one part of the program and leaves   *)
(* the variables of the other parts at rest.                               *)

UiIdle ==
    /\ data = <<>> /\ loading = FALSE /\ error = Null
    /\ extractionMode = "auto" /\ vendor = Null
    /\ startMarker = "Line: 1" /\ endMarker = "Total Price"
    /\ inflight = EmptyBag

\* no upload has begun
NoRequest == [mode |-> "none"]

UploadIdle == UiIdle /\ last_started = NoRequest

DetectIdle == doc_text = "" /\ profiles = <<>> /\ detections = <<>>

CallsIdle == calls = <<>>

NormIdle == text = "" /\ kept = <<>> /\ content = "" /\ npc = "idle"

RawIdle ==
    /\ pdf = <<>> /\ pdf_valid = TRUE /\ split_page_3 = TRUE /\ page_i = 0
    /\ extracted = <<>> /\ results = <<>> /\ rpc = "idle"

RegionIdle ==
    /\ doc_lines = <<>> /\ start_marker = "" /\ end_marker = ""
    /\ region = <<>> /\ items = <<>> /\ gpc = "idle"

NormInit ==
    /\ text \in Texts
    /\ ignore_phrases \in IgnoreConfigs
    /\ kept = <<>>
    /\ content = ""
    /\ npc = "input"
    /\ RawIdle
    /\ RegionIdle
    /\ UploadIdle
    /\ DetectIdle
    /\ CallsIdle

\* one call clean_text(text)
CleanText ==
    /\ npc = "input"
    /\ kept' = (IF text = "" THEN <<>> ELSE kept_lines(text, ignore_phrases))
    /\ content' = clean_text(text, ignore_phrases)
    /\ npc' = "done"
    /\ UNCHANGED <<text, ignore_phrases, rawVars, regionVars, uiVars, last_started,
                   detectVars, calls>>

NormNext == CleanText

SpecNormalize == NormInit /\ [][NormNext]_vars

RawInit ==
    /\ ignore_phrases \in IgnoreConfigs
    /\ pdf \in Pdfs
    /\ pdf_valid \in BOOLEAN
    /\ split_page_3 \in BOOLEAN
    /\ page_i = 0
    /\ extracted = <<>>
    /\ results = <<>>
    /\ rpc = "open"
    /\ NormIdle
    /\ RegionIdle
    /\ UploadIdle
    /\ DetectIdle
    /\ CallsIdle

\* pdfplumber.open returns the document
OpenPdf ==
    /\ rpc = "open"
    /\ pdf_valid
    /\ rpc' = "loop"
    /\ UNCHANGED <<ignore_phrases, normVars, regionVars, uiVars, last_started,
                   detectVars, calls, pdf, pdf_valid, split_page_3,
                   page_i, extracted, results>>

\* pdfplumber.open raises on what is no PDF document
OpenRaises ==
    /\ rpc = "open"
    /\ ~pdf_valid
    /\ rpc' = "raised"
    /\ UNCHANGED <<ignore_phrases, normVars, regionVars, uiVars, last_started,
                   detectVars, calls, pdf, pdf_valid, split_page_3,
                   page_i, extracted, results>>

\* the loop body on page 3 with splitting enabled
SplitPage ==
    /\ rpc = "loop"
    /\ page_i < Len(pdf)
    /\ splits(page_i, split_page_3)
    /\ LET page == pdf[page_i + 1]
       IN  /\ results' = results \o split_records(page_num(page_i), page.left,
                                                  page.right, ignore_phrases)
           /\ extracted' = extracted \o <<page.left, page.right>>
    /\ page_i' = page_i + 1
    /\ UNCHANGED <<ignore_phrases, normVars, regionVars, uiVars, last_started,
                   detectVars, calls, pdf, pdf_valid, split_page_3, rpc>>

\* the loop body on any other page
FullPage ==
    /\ rpc = "loop"
    /\ page_i < Len(pdf)
    /\ ~splits(page_i, split_page_3)
    /\ LET page == pdf[page_i + 1]
       IN  /\ results' = results \o full_record(page_num(page_i), page.full,
                                                ignore_phrases)
           /\ extracted' = Append(extracted, page.full)
    /\ page_i' = page_i + 1
    /\ UNCHANGED <<ignore_phrases, normVars, regionVars, uiVars, last_started,
                   detectVars, calls, pdf, pdf_valid, split_page_3, rpc>>

\* return results
Return ==
    /\ rpc = "loop"
    /\ page_i = Len(pdf)
    /\ rpc' = "returned"
    /\ UNCHANGED <<ignore_phrases, normVars, regionVars, uiVars, last_started,
                   detectVars, calls, pdf, pdf_valid, split_page_3,
                   page_i, extracted, results>>

RawNext == OpenPdf \/ OpenRaises \/ SplitPage \/ FullPage \/ Return

SpecRaw == RawInit /\ [][RawNext]_vars

RegionInit ==
    /\ ignore_phrases = <<>>
    /\ doc_lines \in Docs
    /\ \E mp \in MarkerPairs : start_marker = mp[1] /\ end_marker = mp[2]
    /\ region = <<>>
    /\ items = <<>>
    /\ gpc = "input"
    /\ NormIdle
    /\ RawIdle
    /\ UploadIdle
    /\ DetectIdle
    /\ CallsIdle

\* extractRegion(lines, startMarker, endMarker)
ExtractRegion ==
    /\ gpc = "input"
    /\ region' = extractRegion(doc_lines, start_marker, end_marker)
    /\ gpc' = "region"
    /\ UNCHANGED <<ignore_phrases, normVars, rawVars, uiVars, last_started,
                   detectVars, calls, doc_lines, start_marker,
                   end_marker, items>>

\* parseItems(region, itemHeaderPattern)
ParseItems ==
    /\ gpc = "region"
    /\ items' = parseItems(region)
    /\ gpc' = "items"
    /\ UNCHANGED <<ignore_phrases, normVars, rawVars, uiVars, last_started,
                   detectVars, calls, doc_lines, start_marker,
                   end_marker, region>>

RegionNext == ExtractRegion \/ ParseItems

SpecRegion == RegionInit /\ [][RegionNext]_vars

\* The component App with its backend.

\* The Vendor Detector on its own.

MaxProfiles == 3
MaxRuns == 2

\* the profiles the lists are made of; the last one has no keyword
ProfileVocab ==
    { VENDOR_PROFILES[1], VENDOR_PROFILES[2],
      [name |-> "bolt", detectKeywords |-> <<"INVOICE">>,
       startMarker |-> "Item", endMarker |-> "Total"],
      [name |-> "none", detectKeywords |-> <<>>,
       startMarker |-> "Item", endMarker |-> "Total"] }

RECURSIVE ProfileLists(_)
ProfileLists(n) ==
    IF n = 0 THEN {<<>>}
    ELSE ProfileLists(n - 1)
         \cup {Append(ps, p) : ps \in {q \in ProfileLists(n - 1) : Len(q) = n - 1},
                               p \in ProfileVocab}

DetectTexts ==
    {"", "ACME invoice", "Bolt Co\nWIDGET", "An acme widget", "plain text"}

DetectInit ==
    /\ doc_text \in DetectTexts
    /\ profiles \in ProfileLists(MaxProfiles)
    /\ detections = <<>>
    /\ ignore_phrases = <<>>
    /\ NormIdle
    /\ RawIdle
    /\ RegionIdle
    /\ UploadIdle
    /\ CallsIdle

\* one run of detect(fullDocumentText, profiles)
Detect ==
    /\ Len(detections) < MaxRuns
    /\ detections' = Append(detections,
           [index  |-> detect(doc_text, profiles),
            vendor |-> vendor_name(profiles, detect(doc_text, profiles))])
    /\ UNCHANGED <<ignore_phrases, normVars, rawVars, regionVars, uiVars,
                   last_started, doc_text, profiles, calls>>

DetectNext == Detect

SpecDetect == DetectInit /\ [][DetectNext]_vars

\* Concurrent calls of extract_pdf_smart, one per request, their steps
\* interleaved.  A call's locals are its own; IGNORE_PHRASES is the one
\* module-level value they all read.

CallIds == {1, 2}

MaxCallPages == 3

CallPageVocab ==
    { [full |-> Str("1 a\nb"),     left |-> Str("1 a"), right |-> Str("b")],
      [full |-> Str("Ab\n2 b"),    left |-> Str("Ab"),  right |-> Str("2 b")] }

RECURSIVE CallPageSeqs(_)
CallPageSeqs(n) ==
    IF n = 0 THEN {<<>>}
    ELSE LET shorter == CallPageSeqs(n - 1)
         IN  shorter \cup {Append(ps, p) : ps \in shorter, p \in CallPageVocab}

\* the locals of a call that has opened its document
NewCall(pages, split) ==
    [pdf |-> pages, split_page_3 |-> split, page_i |-> 0, half |-> "left",
     results |-> <<>>, pc |-> "loop"]

CallsInit ==
    /\ ignore_phrases = <<"Ab">>
    /\ calls \in [CallIds -> {NewCall(pages, split) :
                                 pages \in CallPageSeqs(MaxCallPages),
                                 split \in BOOLEAN}]
    /\ NormIdle
    /\ RawIdle
    /\ RegionIdle
    /\ UploadIdle
    /\ DetectIdle

\* the record that the next results.append of a call adds
next_record(c) ==
    LET page == c.pdf[c.page_i + 1]
        n    == page_num(c.page_i)
    IN  IF ~splits(c.page_i, c.split_page_3)
        THEN full_record(n, page.full, ignore_phrases)[1]
        ELSE IF c.half = "left"
        THEN split_records(n, page.left, page.right, ignore_phrases)[1]
        ELSE split_records(n, page.left, page.right, ignore_phrases)[2]

\* the locals of a call after its next results.append
after_append(c) ==
    IF splits(c.page_i, c.split_page_3) /\ c.half = "left"
    THEN [c EXCEPT !.results = Append(@, next_record(c)), !.half = "right"]
    ELSE [c EXCEPT !.results = Append(@, next_record(c)), !.half = "left",
                   !.page_i = @ + 1]

CallAppend_SharedResults(id) ==
    /\ calls[id].pc = "loop"
    /\ calls[id].page_i < Len(calls[id].pdf)
    /\ calls' = [k \in CallIds |->
                    IF k = id THEN after_append(calls[id])
                    ELSE [calls[k] EXCEPT !.results = Append(@, next_record(calls[id]))]]
    /\ UNCHANGED <<ignore_phrases, normVars, rawVars, regionVars, uiVars,
                   last_started, detectVars>>

\* one results.append of call id
CallAppend(id) ==
    /\ calls[id].pc = "loop"
    /\ calls[id].page_i < Len(calls[id].pdf)
    /\ calls' = [calls EXCEPT ![id] = after_append(calls[id])]
    /\ UNCHANGED <<ignore_phrases, normVars, rawVars, regionVars, uiVars,
                   last_started, detectVars>>

\* return results of call id
CallReturn(id) ==
    /\ calls[id].pc = "loop"
    /\ calls[id].page_i = Len(calls[id].pdf)
    /\ calls' = [calls EXCEPT ![id].pc = "returned"]
    /\ UNCHANGED <<ignore_phrases, normVars, rawVars, regionVars, uiVars,
                   last_started, detectVars>>

CallsNext == \E id \in CallIds : CallAppend(id) \/ CallReturn(id)

SpecCalls == CallsInit /\ [][CallsNext]_vars

\* the state after the first render
Init ==
    /\ UploadIdle
    /\ ignore_phrases = BACKEND_IGNORE
    /\ NormIdle
    /\ RawIdle
    /\ RegionIdle
    /\ DetectIdle
    /\ CallsIdle

too_large_Inclusive(file) == file.size >= MAX_SIZE

\* file.size > maxSize
too_large(file) == file.size > MAX_SIZE

\* handleFile on a file that is no PDF
RejectType(file) ==
    /\ file.type # "application/pdf"
    /\ error' = Tok(MsgType)
    /\ UNCHANGED <<data, loading, extractionMode, vendor, startMarker,
                   endMarker, inflight>>

\* handleFile on a PDF over the size limit
RejectSize(file) ==
    /\ file.type = "application/pdf"
    /\ too_large(file)
    /\ error' = Tok(MsgSize(file))
    /\ UNCHANGED <<data, loading, extractionMode, vendor, startMarker,
                   endMarker, inflight>>

\* handleFile on a file that passes validation, up to await fetch
StartUpload(file) ==
    /\ file.type = "application/pdf"
    /\ ~too_large(file)
    /\ BagCardinality(inflight) < MaxInflight
    /\ loading' = TRUE
    /\ error' = Null
    /\ data' = <<>>
    /\ vendor' = Null
    /\ inflight' = inflight (+) SetToBag(
           {[mode     |-> extractionMode,
             endpoint |-> endpoint(extractionMode),
             markers  |-> form_markers(extractionMode, startMarker, endMarker),
             file     |-> file.name]})
    /\ UNCHANGED <<extractionMode, startMarker, endMarker>>

\* handleFile(file), from handleDrop or handleChange
handleFileOn(file) == RejectType(file) \/ RejectSize(file) \/ StartUpload(file)

handleFile == \E file \in UploadFiles : handleFileOn(file)

closure_mode_Current(r) == extractionMode

\* extractionMode as the running handleFile sees it after the await: the
\* constant of the render that created the handler
closure_mode(r) == r.mode

\* the rest of handleFile for an OK response of /extract-items
SmartResponse(r) ==
    /\ BagIn(r, inflight)
    /\ IsSmart(closure_mode(r))
    /\ \E upd \in {on_smart_result(extract_items_response(r))} :
           /\ data' = upd.data
           /\ vendor' = upd.vendor
           /\ error' = upd.error
    /\ loading' = FALSE
    /\ inflight' = inflight (-) SetToBag({r})
    /\ UNCHANGED <<extractionMode, startMarker, endMarker>>

\* the rest of handleFile for an OK response of /upload
RawResponse(r) ==
    /\ BagIn(r, inflight)
    /\ ~IsSmart(closure_mode(r))
    /\ data' = UploadResult[r.file]
    /\ loading' = FALSE
    /\ inflight' = inflight (-) SetToBag({r})
    /\ UNCHANGED <<error, extractionMode, vendor, startMarker, endMarker>>

FailedResponse_KeepsLoading(r) ==
    /\ BagIn(r, inflight)
    /\ \E msg \in Thrown : error' = catch_message(msg)
    /\ inflight' = inflight (-) SetToBag({r})
    /\ UNCHANGED <<data, loading, extractionMode, vendor, startMarker, endMarker>>

\* the rest of handleFile when fetch rejects, the response is not OK (with
\* a detail or without) or its body is no JSON: catch, then finally
FailedResponse(r) ==
    /\ BagIn(r, inflight)
    /\ \E msg \in Thrown : error' = catch_message(msg)
    /\ loading' = FALSE
    /\ inflight' = inflight (-) SetToBag({r})
    /\ UNCHANGED <<data, extractionMode, vendor, startMarker, endMarker>>

\* the mode switcher buttons
setExtractionMode ==
    /\ \E m \in Modes : m # extractionMode /\ extractionMode' = m
    /\ UNCHANGED <<data, loading, error, vendor, startMarker, endMarker,
                   inflight>>

\* typing into the start marker input, which manual mode shows
setStartMarker ==
    /\ extractionMode = "manual"
    /\ \E v \in StartMarkerInputs : v # startMarker /\ startMarker' = v
    /\ UNCHANGED <<data, loading, error, extractionMode, vendor, endMarker,
                   inflight>>

\* typing into the end marker input, which manual mode shows
setEndMarker ==
    /\ extractionMode = "manual"
    /\ \E v \in EndMarkerInputs : v # endMarker /\ endMarker' = v
    /\ UNCHANGED <<data, loading, error, extractionMode, vendor, startMarker,
                   inflight>>

handleClear_KeepsVendor ==
    /\ data # <<>>
    /\ data' = <<>>
    /\ error' = Null
    /\ UNCHANGED <<loading, extractionMode, vendor, startMarker, endMarker, inflight>>

\* the Clear button, which is shown with the data
handleClear ==
    /\ data # <<>>
    /\ data' = <<>>
    /\ error' = Null
    /\ vendor' = Null
    /\ UNCHANGED <<loading, extractionMode, startMarker, endMarker, inflight>>

UiNext ==
    \/ handleFile
    \/ \E r \in BagToSet(inflight) : SmartResponse(r) \/ RawResponse(r) \/ FailedResponse(r)
    \/ setExtractionMode
    \/ setStartMarker
    \/ setEndMarker
    \/ handleClear

\* what the component leaves alone
BackendAtRest ==
    UNCHANGED <<ignore_phrases, normVars, rawVars, regionVars, detectVars, calls>>

Next == UiNext /\ BackendAtRest /\ UNCHANGED last_started

Spec == Init /\ [][Next]_vars

---------------------------------------------------------------------------
(* Properties of clean_text, checked under SpecNormalize.                  *)

---------------------------------------------------------------------------
(* The component with every request answered: fetch settles each request   *)
(* it was given, with a response or with a rejection.                      *)

\* the await of request r ends: the rest of handleFile runs
Respond(r) == SmartResponse(r) \/ RawResponse(r) \/ FailedResponse(r)

\* a step in which some request in flight is answered
Answered == Next /\ \E r \in BagToSet(inflight) : Respond(r)

SpecLive == Init /\ [][Next]_vars /\ WF_vars(Answered)

---------------------------------------------------------------------------
(* The component with the history of its uploads: last_started is the      *)
(* request of the latest handleFile call that passed validation.           *)

OverlapNext ==
    /\ UiNext
    /\ BackendAtRest
    /\ \/ \E r \in BagToSet(inflight') :
              /\ CopiesIn(r, inflight') > CopiesIn(r, inflight)
              /\ last_started' = r
       \/ /\ \A r \in BagToSet(inflight') :
                 CopiesIn(r, inflight') <= CopiesIn(r, inflight)
          /\ UNCHANGED last_started

SpecOverlap == Init /\ [][OverlapNext]_vars

\* the records of a returned content
Records(c) == IF c = "" THEN <<>> ELSE Split(c, "\n")

\* line l holds phrase p at some offset, whatever the case of either
HoldsPhrase(l, p) ==
    \E i \in 0..(Len(l) - Len(p)) :
        \A j \in 1..Len(p) :
            LowerChar(CharAt(l, i + j)) = LowerChar(CharAt(p, j))

HoldsSomePhrase(l, phrases) ==
    \E k \in 1..Len(phrases) : HoldsPhrase(l, phrases[k])

\* the header lines of a filtered line sequence
Headers(K) == {i \in 1..Len(K) : IsHeader(K[i])}
Min(S) == CHOOSE x \in S : \A y \in S : x <= y
\* how many lines come before the first header line
Leading(K) == IF Headers(K) = {} THEN Len(K) ELSE Min(Headers(K)) - 1
\* the last line of the comment that header line h opens
CommentEnd(K, H, h) ==
    LET later == {g \in H : g > h}
    IN  IF later = {} THEN Len(K) ELSE Min(later) - 1
\* a line was folded into a comment
SomeLineFolded(K) == \E i \in 1..Len(K) : i > Leading(K) /\ ~IsHeader(K[i])

\* C1 as claimed: normalize is idempotent for every text and every
\* ignore-phrase list, joined records included.
C1_IdempotentAlways ==
    npc = "done" => clean_text(content, ignore_phrases) = content

\* C1 as amended: a second pass returns the content unchanged exactly when
\* no record of the content holds an ignore phrase, which is so for every
\* text when no ignore phrase has a space in it.
C1_IdempotentUnlessJoinedMatch ==
    npc = "done" =>
        LET again == clean_text(content, ignore_phrases)
            R     == Records(content)
        IN  /\ (again = content) <=>
                   (\A r \in 1..Len(R) : ~HoldsSomePhrase(R[r], ignore_phrases))
            /\ (\A k \in 1..Len(ignore_phrases) :
                    ~Contains(ignore_phrases[k], " ")) => again = content

C1_Witness ==
    /\ npc = "done"
    /\ ignore_phrases # <<>>
    /\ \A k \in 1..Len(ignore_phrases) : ~Contains(ignore_phrases[k], " ")
    /\ SomeLineFolded(kept)
    /\ content # ""

\* C2: joining the records of the output with single spaces gives the kept
\* lines joined with single spaces: no kept line is dropped, duplicated or
\* reordered.
C2_Conservation ==
    npc = "done" =>
        /\ Join(Records(content), " ") = Join(kept, " ")
        /\ Len(Records(content)) <= Len(kept)

C2_Witness ==
    /\ npc = "done"
    /\ Len(kept) >= 3
    /\ SomeLineFolded(kept)
    /\ Len(Records(content)) >= 2
    /\ Len(Split(text, "\n")) > Len(kept)

\* the input without the lines that hold an ignore phrase
RECURSIVE WithoutMatching(_, _, _)
WithoutMatching(lines, phrases, i) ==
    IF i > Len(lines) THEN <<>>
    ELSE (IF HoldsSomePhrase(lines[i], phrases) THEN <<>> ELSE <<lines[i]>>)
         \o WithoutMatching(lines, phrases, i + 1)

\* C3: a line that holds an ignore phrase, in any case and anywhere in the
\* line, contributes nothing to the output: the output is the one the input
\* without those lines gives, and is empty when every line holds a phrase.
C3_IgnoreElimination ==
    npc = "done" =>
        LET lines == Split(text, "\n")
            rest  == WithoutMatching(lines, ignore_phrases, 1)
        IN  /\ content = clean_text(Join(rest, "\n"), ignore_phrases)
            /\ rest = <<>> => content = ""

C3_Witness ==
    /\ npc = "done"
    /\ content # ""
    /\ \E i \in 1..Len(Split(text, "\n")) :
           LET l == Split(text, "\n")[i]
           IN  /\ HoldsSomePhrase(l, ignore_phrases)
               /\ \A k \in 1..Len(ignore_phrases) : ~Contains(l, ignore_phrases[k])

\* C4: the output has one record per header line, after the leading lines;
\* the record of header line h is h followed by each line up to the next
\* header line, each after one space.
C4_CommentReconstruction ==
    npc = "done" =>
        LET R == Records(content)
            H == Headers(kept)
            n == Leading(kept)
        IN  /\ Len(R) = n + Cardinality(H)
            /\ \A h \in H :
                   R[n + Cardinality({g \in H : g <= h})]
                       = Join(SubSeq(kept, h, CommentEnd(kept, H, h)), " ")

C4_Witness ==
    /\ npc = "done"
    /\ LET H == Headers(kept)
       IN  \E h \in H, g \in H : g > h + 1 /\ CommentEnd(kept, H, h) = g - 1

\* C5: each line before the first header line is a record of its own,
\* verbatim, and these records precede every comment record.
C5_LeadingPassthrough ==
    npc = "done" =>
        LET R == Records(content)
            n == Leading(kept)
        IN  /\ Len(R) >= n
            /\ \A i \in 1..n : R[i] = kept[i] /\ ~IsHeader(R[i])
            /\ \A j \in (n + 1)..Len(R) : IsHeader(R[j])

C5_Witness ==
    /\ npc = "done"
    /\ Leading(kept) >= 1
    /\ Headers(kept) # {}
    /\ SomeLineFolded(kept)

---------------------------------------------------------------------------
(* Properties of extract_pdf_smart, checked under SpecRaw.                 *)

\* C6: with the default configuration the records come in page order, one
\* "Full Page" record for each page but page 3 and for page 3 the records
\* "As Found (Left)" and "As Left (Right)" in that order: n records for
\* n < 3 pages and n + 1 for n >= 3.
C6_PageSegmentation ==
    (rpc = "returned" /\ split_page_3) =>
        LET n == Len(pdf)
        IN  /\ Len(results) = (IF n < 3 THEN n ELSE n + 1)
            /\ \A k \in 1..Len(results) :
                   /\ results[k].page = (IF k <= 3 THEN k ELSE k - 1)
                   /\ results[k].type =
                          (IF k = 3 THEN "As Found (Left)"
                           ELSE IF k = 4 THEN "As Left (Right)"
                           ELSE "Full Page")

C6_Witness ==
    /\ rpc = "returned"
    /\ split_page_3
    /\ Len(pdf) >= 4
    /\ Len(results) = Len(pdf) + 1

\* no extract_text call has returned any text
NoTextExtracted ==
    \A k \in 1..Len(extracted) : Strip(or_empty(extracted[k])) = ""

\* C7 as claimed: a valid document whose pages yield no text returns zero
\* records, as a success.
C7_NoTextZeroRecords ==
    (pdf_valid /\ NoTextExtracted) =>
        /\ rpc # "raised"
        /\ rpc = "returned" => results = <<>>

\* C7 as amended: a valid document whose pages yield no text returns, as a
\* success, one record for each extract_text call, each with empty
\* content; it returns zero records only when it has no pages.
C7_NoTextEmptyRecords ==
    (pdf_valid /\ NoTextExtracted) =>
        /\ rpc # "raised"
        /\ rpc = "returned" =>
               /\ Len(results) = Len(extracted)
               /\ \A k \in 1..Len(results) : results[k].content = ""
               /\ (results = <<>>) <=> (pdf = <<>>)

C7_Witness ==
    /\ rpc = "returned"
    /\ pdf_valid
    /\ NoTextExtracted
    /\ Len(pdf) >= 3
    /\ \E k \in 1..Len(extracted) : extracted[k].none
    /\ \E k \in 1..Len(extracted) : ~extracted[k].none /\ extracted[k].str # ""

---------------------------------------------------------------------------
(* Properties of the region extractor and the item parser, checked under   *)
(* SpecRegion.                                                             *)

\* line l holds marker p at some offset, letter for letter
HoldsMarker(l, p) ==
    \E i \in 0..(Len(l) - Len(p)) :
        \A j \in 1..Len(p) : CharAt(l, i + j) = CharAt(p, j)

\* C8: the region is the lines from the first line s holding the start
\* marker up to, and without, the first line after s holding the end
\* marker, or up to the end of the input; an end marker at or before s
\* ends nothing.
C8_BoundedRegion ==
    gpc # "input" =>
        LET S == {i \in 1..Len(doc_lines) : HoldsMarker(doc_lines[i], start_marker)}
        IN  IF S = {} THEN region = <<>>
            ELSE LET s == Min(S)
                     E == {j \in (s + 1)..Len(doc_lines) :
                              HoldsMarker(doc_lines[j], end_marker)}
                     e == IF E = {} THEN Len(doc_lines) + 1 ELSE Min(E)
                 IN  region = SubSeq(doc_lines, s, e - 1)

C8_Witness ==
    /\ gpc = "region"
    /\ Len(region) >= 2
    /\ \E s \in 2..Len(doc_lines) :
           /\ region[1] = doc_lines[s]
           /\ HoldsMarker(doc_lines[s], end_marker)
           /\ HoldsMarker(doc_lines[s - 1], end_marker)
           /\ \A i \in 1..(s - 1) : ~HoldsMarker(doc_lines[i], start_marker)
    /\ Len(region) < Len(doc_lines) - 1

BeginsWith(l, p) == Len(p) <= Len(l) /\ SubSeq(l, 1, Len(p)) = p

\* the region is a start-marker line, which begins with the marker and
\* carries a part id and ends with a quantity and a price, and then one or
\* more lines that are no item headers
Example3Region ==
    /\ gpc = "items"
    /\ Len(region) >= 2
    /\ BeginsWith(region[1], start_marker)
    /\ LET t == Tokens(region[1])
       IN  /\ Len(t) >= 3
           /\ \E i \in 1..Len(t) : IsPartId(t[i])
           /\ AllDigits(t[Len(t) - 1])
           /\ IsNumeric(t[Len(t)])
    /\ \A k \in 2..Len(region) : ~IsItemHeader(region[k])

\* the one item that Example 3 expects, with line number n
Example3Item(n) ==
    LET t == Tokens(region[1])
    IN  /\ Len(items) = 1
        /\ items[1].line_item = Num(n)
        /\ items[1].part_id =
               Tok(t[Min({i \in 1..Len(t) : IsPartId(t[i])})])
        /\ items[1].qty = Num(ParseInt(t[Len(t) - 1]))
        /\ items[1].price = Num(ParsePrice(t[Len(t)]))
        /\ \A k \in 2..Len(region) : Contains(items[1].description, region[k])

\* the lines of the document a request carries
RequestLines(r) == Split(full_text(PdfOf[r.file], 1), "\n")

\* the markers the backend uses for a request
RequestMarkers(r) ==
    markers_in_use(detect(full_text(PdfOf[r.file], 1), VENDOR_PROFILES), r.markers)

\* a request whose document has no line with the start marker
NoStartMarkerLine(r) ==
    /\ RequestMarkers(r) # <<>>
    /\ \A i \in 1..Len(RequestLines(r)) :
           ~HoldsMarker(RequestLines(r)[i], RequestMarkers(r)[1])

\* over the documents and markers of the region extractor: with no line
\* holding the start marker the region is empty, and so are its items
NoMatchNoRegion ==
    \A d \in Docs : \A mp \in MarkerPairs :
        (\A i \in 1..Len(d) : ~HoldsMarker(d[i], mp[1]))
        => /\ extractRegion(d, mp[1], mp[2]) = <<>>
           /\ parseItems(extractRegion(d, mp[1], mp[2])) = <<>>

\* C9: no marker match is a success.  When no line of the document holds
\* the start marker, extractRegion returns the empty sequence and parseItems
\* on it the empty sequence, and the step of handleFile that takes the
\* answer of such a smart request sets data to the empty list, leaves error
\* as it is (null, when nothing else has set it since the request began)
\* and ends loading.
C9_NoMatchIsSuccess ==
    [][\A r \in BagToSet(inflight) :
          (SmartResponse(r) /\ NoStartMarkerLine(r))
          => /\ NoMatchNoRegion
             /\ extractRegion(RequestLines(r), RequestMarkers(r)[1],
                              RequestMarkers(r)[2]) = <<>>
             /\ parseItems(<<>>) = <<>>
             /\ data' = <<>>
             /\ error' = error
             /\ loading' = FALSE]_vars

\* a smart request without a marker match has been answered: the vendor is
\* set, there are no items, no error and nothing is loading
C9_Witness ==
    /\ vendor # Null
    /\ data = <<>>
    /\ error = Null
    /\ loading = FALSE
    /\ inflight = EmptyBag

---------------------------------------------------------------------------
(* Item grouping.                                                          *)

ItemHeaders(K) == {i \in 1..Len(K) : IsItemHeader(K[i])}
\* how many lines come before the first item header line
LeadingLines(K) == IF ItemHeaders(K) = {} THEN Len(K) ELSE Min(ItemHeaders(K)) - 1

---------------------------------------------------------------------------
(* Vendor detection.                                                       *)

\* keyword k occurs in text t, letter case apart
KeywordOccurs(t, k) ==
    \E i \in 0..(Len(t) - Len(k)) :
        \A j \in 1..Len(k) : LowerChar(CharAt(t, i + j)) = LowerChar(CharAt(k, j))

\* profile p has a detect keyword that occurs in text t
ProfileHits(p, t) ==
    \E k \in 1..Len(p.detectKeywords) : KeywordOccurs(t, p.detectKeywords[k])

\* C12: every run of detect returns the first profile, in the order of the
\* list, one of whose detect keywords occurs case-insensitively in the full
\* document text, and "unknown" when no profile has one; every run on the
\* same text and list returns the same.
C12_FirstMatchingProfile ==
    \A k \in 1..Len(detections) :
        LET d == detections[k]
        IN  /\ d.index \in 0..Len(profiles)
            /\ (d.index = 0) <=> (\A i \in 1..Len(profiles) : ~ProfileHits(profiles[i], doc_text))
            /\ d.index # 0 =>
                   /\ ProfileHits(profiles[d.index], doc_text)
                   /\ \A j \in 1..(d.index - 1) : ~ProfileHits(profiles[j], doc_text)
                   /\ d.vendor = profiles[d.index].name
            /\ d.index = 0 => d.vendor = "unknown"
            /\ d = detections[1]

\* two runs on a text that two profiles of different names match, by a
\* keyword in another letter case
C12_Witness ==
    /\ Len(detections) = MaxRuns
    /\ \E i, j \in 1..Len(profiles) :
           /\ i < j
           /\ profiles[i].name # profiles[j].name
           /\ ProfileHits(profiles[i], doc_text)
           /\ ProfileHits(profiles[j], doc_text)
           /\ ~Contains(doc_text, profiles[i].detectKeywords[1])

---------------------------------------------------------------------------
(* Request independence.                                                   *)

\* C13: whatever the interleaving of the steps of the concurrent calls,
\* the results of each call are at every step a prefix of what the call
\* returns when run alone, and all of it once the call has returned: no
\* step of one call changes the locals of another, and the ignore-phrase
\* list is only read.
C13_RequestIndependence ==
    \A id \in DOMAIN calls :
        LET c     == calls[id]
            alone == extract_pdf_smart(c.pdf, c.split_page_3, ignore_phrases)
        IN  /\ Len(c.results) <= Len(alone)
            /\ c.results = SubSeq(alone, 1, Len(c.results))
            /\ c.pc = "returned" => c.results = alone

\* both calls have returned, on different documents, after their steps
\* were interleaved (each has a split page, whose two appends are steps)
C13_Witness ==
    /\ DOMAIN calls = CallIds
    /\ \A id \in CallIds : calls[id].pc = "returned" /\ Len(calls[id].results) = 4
    /\ calls[1].pdf # calls[2].pdf

---------------------------------------------------------------------------
(* Manual markers.                                                         *)

\* the requests that a step has added to those in flight
Begun(r) == CopiesIn(r, inflight') > CopiesIn(r, inflight)

\* the default markers of the vendor detected in the document of a request
VendorDefaults(r) ==
    markers_in_use(detect(full_text(PdfOf[r.file], 1), VENDOR_PROFILES), NoMarkers)

\* C14: a request that begins in manual mode carries start_marker and
\* end_marker with the values the marker inputs have at that moment, and
\* these are the markers that bound its region, whatever vendor is
\* detected; a request that begins in another mode carries no markers, and
\* one that begins in auto mode uses the defaults of the detected vendor.
C14_ManualMarkers ==
    [][\A r \in BagToSet(inflight') :
          Begun(r) =>
              /\ r.mode = extractionMode
              /\ (r.markers # NoMarkers) <=> (r.mode = "manual")
              /\ r.mode = "manual" =>
                     /\ r.markers = <<startMarker, endMarker>>
                     /\ RequestMarkers(r) = <<startMarker, endMarker>>
              /\ r.mode = "auto" => RequestMarkers(r) = VendorDefaults(r)]_vars

\* a manual request in flight whose markers are not those of the vendor
\* detected in its document, and an auto request with none
C14_Witness ==
    \E r, q \in BagToSet(inflight) :
        /\ r.mode = "manual"
        /\ r.markers # VendorDefaults(r)
        /\ r.markers = RequestMarkers(r)
        /\ q.mode = "auto"
        /\ q.markers = NoMarkers

---------------------------------------------------------------------------
(* Upload validation.                                                      *)

\* C15: handleFile on a file that is no application/pdf, or is larger than
\* 10 * 1024 * 1024 bytes, sets error to a message, sends no request and
\* leaves loading, data and vendor as they are; on a PDF of exactly
\* 10 * 1024 * 1024 bytes it sends a request.
C15_UploadValidation ==
    [][\A file \in UploadFiles :
          handleFileOn(file) =>
              /\ (file.type # "application/pdf" \/ file.size > 10 * 1024 * 1024) =>
                     /\ error' # Null
                     /\ error'.val # ""
                     /\ inflight' = inflight
                     /\ UNCHANGED <<loading, data, vendor>>
              /\ (file.type = "application/pdf" /\ file.size = 10 * 1024 * 1024) =>
                     /\ \E r \in BagToSet(inflight') : Begun(r) /\ r.file = file.name
                     /\ loading' = TRUE
                     /\ error' = Null]_vars

\* a PDF of exactly the limit is in flight and a larger one was refused
\* while it was
C15_Witness ==
    /\ \E r \in BagToSet(inflight) :
           \E file \in UploadFiles :
               file.name = r.file /\ file.size = 10 * 1024 * 1024
    /\ loading = TRUE
    /\ error # Null
    /\ Contains(error.val, "too large")

---------------------------------------------------------------------------
(* The loading flag, checked under SpecLive.                               *)

\* a step that starts the upload of a file that passed validation
UploadStarts == \E r \in BagToSet(inflight') : Begun(r)

\* a step that ends a request, answered or failed
RequestEnds == \E r \in BagToSet(inflight) : CopiesIn(r, inflight') < CopiesIn(r, inflight)

\* C16: an upload that passes validation sets loading to true; the end of
\* its request, answered or failed, sets loading to false; and when no
\* further upload is started, loading is eventually false for good.
C16_LoadingSettles ==
    /\ [][(UploadStarts => loading' = TRUE) /\ (RequestEnds => loading' = FALSE)]_vars
    /\ (<>[][~UploadStarts]_vars) => <>[](loading = FALSE)

\* a request has failed and left an error, nothing is in flight any more
\* and the loading flag is down
C16_Witness ==
    /\ inflight = EmptyBag
    /\ loading = FALSE
    /\ error # Null
    /\ Contains(error.val, "Unable to connect")

---------------------------------------------------------------------------
(* One mode per request.                                                   *)

\* request r ends in the step
Ended(r) == CopiesIn(r, inflight') < CopiesIn(r, inflight)

\* what the catch block does
StoresFailure ==
    /\ \E msg \in Thrown : error' = catch_message(msg)
    /\ UNCHANGED <<data, vendor>>

\* result.data goes into data
StoresData(r) == data' = UploadResult[r.file] /\ UNCHANGED <<vendor, error>>

\* result.items goes into data, with result.vendor
StoresItems(r) ==
    /\ data' = extract_items_response(r).items
    /\ vendor' \in {Tok(extract_items_response(r).vendor), Tok("Unknown")}
    /\ vendor' # Tok("")
    /\ UNCHANGED error

\* C17: the endpoint of a request, whether it carries markers and which
\* field of its answer is stored are all given by the extraction mode at
\* the time the upload began, whatever the mode is when the answer comes.
C17_ModePerRequest ==
    [][\A r \in BagToSet(inflight) \cup BagToSet(inflight') :
          /\ Begun(r) =>
                 /\ r.mode = extractionMode
                 /\ r.endpoint = (IF r.mode = "raw" THEN "/upload" ELSE "/extract-items")
                 /\ (r.markers # NoMarkers) <=> (r.mode = "manual")
          /\ Ended(r) =>
                 \/ StoresFailure
                 \/ IF r.mode = "raw" THEN StoresData(r) ELSE StoresItems(r)]_vars

\* the mode went from raw to another while a raw request was in flight:
\* its records are displayed, with no vendor, next to a request of the new
\* mode that began before the answer came
C17_Witness ==
    /\ data # <<>>
    /\ "content" \in DOMAIN data[1]
    /\ vendor = Null
    /\ error = Null
    /\ extractionMode # "raw"
    /\ \E r \in BagToSet(inflight) : r.mode = extractionMode

---------------------------------------------------------------------------
(* The Clear button.                                                       *)

\* C18: handleClear empties data, sets error and vendor to null and leaves
\* loading, extractionMode, startMarker and endMarker as they are.
C18_ClearFrame ==
    [][handleClear =>
          /\ data' = <<>>
          /\ error' = Null
          /\ vendor' = Null
          /\ UNCHANGED <<loading, extractionMode, startMarker, endMarker>>]_vars

\* the display was cleared while a second request was in flight: the end
\* of the first request left loading false and something in data, vendor
\* or error, and only handleClear takes all three back without raising
\* loading
C18_Witness ==
    /\ data = <<>>
    /\ error = Null
    /\ vendor = Null
    /\ loading = FALSE
    /\ inflight # EmptyBag
    /\ extractionMode = "manual"
    /\ startMarker # "Line: 1"

---------------------------------------------------------------------------
(* What the tables are given.                                              *)

\* the raw table is rendered: data.length > 0 and extractionMode === 'raw'
RawTableRenders == data # <<>> /\ extractionMode = "raw"

\* the smart table is rendered
SmartTableRenders == data # <<>> /\ IsSmart(extractionMode)

\* a record of /upload, which has a content to split
IsRawRecord(item) == "content" \in DOMAIN item

\* a line item of /extract-items
IsLineItem(item) == "description" \in DOMAIN item

\* C19: whenever data is shown, it came from an upload of the family of
\* the selected mode: the raw table renders only records with a content
\* field and the smart table renders only line items.
C19_DataMatchesMode ==
    /\ RawTableRenders => \A i \in 1..Len(data) : IsRawRecord(data[i])
    /\ SmartTableRenders => \A i \in 1..Len(data) : IsLineItem(data[i])

---------------------------------------------------------------------------
(* Overlapping uploads, checked under SpecOverlap.                         *)

\* what the answer to request r puts into data
AnswerData(r) ==
    IF r.mode = "raw" THEN UploadResult[r.file] ELSE extract_items_response(r).items

\* the vendor shown with the answer to request r: none for a raw upload
AnswerVendor(r) ==
    IF r.mode = "raw" THEN Null ELSE on_smart_result(extract_items_response(r)).vendor

\* C20: when the last of the overlapping requests has completed, and none
\* has failed since the latest upload began, data and vendor are those of
\* the upload that began last, whatever the order of the answers.
C20_LatestStartedWins ==
    [][\A r \in BagToSet(inflight) :
          (Ended(r) /\ inflight' = EmptyBag /\ error' = Null) =>
              /\ data' = AnswerData(last_started)
              /\ vendor' = AnswerVendor(last_started)]_vars

---------------------------------------------------------------------------
(* The loading flag and the requests in flight.                            *)

\* some upload request has not been answered yet
RequestInFlight == inflight # EmptyBag

\* C21: in every state of the component, loading is true exactly when at
\* least one upload request is still in flight, also when a second upload
\* began before the first had finished.
C21_LoadingIffInFlight == loading <=> RequestInFlight

---------------------------------------------------------------------------
(* The error message and the results.                                      *)

\* the error paragraph is rendered: {error && ...}
ErrorShown == error # Null

\* the results block is rendered: {data.length > 0 && ...}
ResultsShown == data # <<>>

\* C22: in every state of the component, error is non-null only when data
\* is empty: an error message and extracted results are never displayed
\* together.
C22_ErrorOnlyWithoutData == ErrorShown => ~ResultsShown

=============================================================================
